---------------------------- MODULE Spec2Model ----------------------------
(***************************************************************************)
(* Model of examples/service-with-secrets/server.py: an HTTP handler with  *)
(* three read-only routes that report health, configuration and the        *)
(* presence of secrets, all taken from the process environment.            *)
(*                                                                         *)
(* A Python str is a sequence of one-character strings, a bytes object a   *)
(* sequence of integers 0..255, a dict a sequence of key/value items in    *)
(* insertion order, os.environ a function whose DOMAIN is the set of the   *)
(* variables that are set.  A response is what do_GET hands to the         *)
(* BaseHTTPRequestHandler interface: the status codes and headers it       *)
(* sends, the end of the headers, and the bytes it writes to wfile; the    *)
(* Server and Date headers the library adds itself are not part of it.     *)
(***************************************************************************)
EXTENDS Integers, Sequences, FiniteSets, TLC

VARIABLES
    environ,    \* os.environ: variable name -> value, for the variables set
    last,       \* the request the serial server handled most recently
    prev,       \* the request it handled before that one
    changes,    \* how many times the environment was changed so far
    handlers,   \* one Handler instance per connection of the threaded server
    pc,         \* per connection: how many statements of do_GET have run
    path        \* per connection: self.path

vars == <<environ, last, prev, changes, handlers, pc, path>>

-----------------------------------------------------------------------------
(* Bounds *)

\* Connections the threaded server handles at once.
NumThreads == 2

\* Changes made to the environment while the server runs.
MaxEnvChanges == 1

-----------------------------------------------------------------------------
(* Characters and bytes *)

\* Code points of the characters that occur in the model.
Ord ==
    ("\t" :> 9) @@ ("\n" :> 10) @@ (" " :> 32) @@ ("\"" :> 34) @@ ("," :> 44)
    @@ ("-" :> 45) @@ ("/" :> 47)
    @@ ("0" :> 48) @@ ("1" :> 49) @@ ("2" :> 50) @@ ("3" :> 51) @@ ("4" :> 52)
    @@ ("5" :> 53) @@ ("6" :> 54) @@ ("7" :> 55) @@ ("8" :> 56) @@ ("9" :> 57)
    @@ (":" :> 58) @@ ("C" :> 67) @@ ("T" :> 84) @@ ("\\" :> 92) @@ ("_" :> 95)
    @@ ("a" :> 97) @@ ("b" :> 98) @@ ("c" :> 99) @@ ("d" :> 100) @@ ("e" :> 101)
    @@ ("f" :> 102) @@ ("g" :> 103) @@ ("h" :> 104) @@ ("i" :> 105)
    @@ ("j" :> 106) @@ ("k" :> 107) @@ ("l" :> 108) @@ ("m" :> 109)
    @@ ("n" :> 110) @@ ("o" :> 111) @@ ("p" :> 112) @@ ("r" :> 114)
    @@ ("s" :> 115) @@ ("t" :> 116) @@ ("u" :> 117) @@ ("v" :> 118)
    @@ ("w" :> 119) @@ ("y" :> 121) @@ ("{" :> 123) @@ ("}" :> 125)
    @@ ("é" :> 233)

HexDigits ==
    <<"0", "1", "2", "3", "4", "5", "6", "7", "8", "9", "a", "b", "c", "d", "e", "f">>

\* '\\u{0:04x}'.format(n), the escape json gives a character it has no
\* short escape for.
Hex4(n) ==
    << HexDigits[((n \div 4096) % 16) + 1], HexDigits[((n \div 256) % 16) + 1],
       HexDigits[((n \div 16) % 16) + 1], HexDigits[(n % 16) + 1] >>

\* str.encode() of one character: its UTF-8 bytes.
Utf8(c) ==
    LET n == Ord[c]
    IN  IF n < 128 THEN <<n>>
        ELSE IF n < 2048 THEN <<192 + (n \div 64), 128 + (n % 64)>>
        ELSE <<224 + (n \div 4096), 128 + ((n \div 64) % 64), 128 + (n % 64)>>

\* str.encode(): the UTF-8 bytes of a str, those of its characters in order.
\* An ASCII str has one byte per character; any other is encoded by halves,
\* which keeps the recursion shallow.
RECURSIVE encode(_)
encode(s) ==
    IF \A i \in 1..Len(s) : Ord[s[i]] < 128 THEN [i \in 1..Len(s) |-> Ord[s[i]]]
    ELSE IF Len(s) = 1 THEN Utf8(s[1])
    ELSE LET mid == Len(s) \div 2
         IN  encode(SubSeq(s, 1, mid)) \o encode(SubSeq(s, mid + 1, Len(s)))

-----------------------------------------------------------------------------
(* json.dumps *)

\* The characters json's ensure_ascii string encoder escapes: its pattern
\* ([\\"]|[^\ -~]) matches a backslash, a quote and whatever is not
\* printable ASCII.
NeedsEscape(c) == c = "\\" \/ c = "\"" \/ Ord[c] < 32 \/ Ord[c] > 126

\* What the encoder writes for one character: the short escape where there
\* is one, \uXXXX otherwise.
EscapeChar(c) ==
    IF ~NeedsEscape(c) THEN <<c>>
    ELSE IF c = "\"" THEN <<"\\", "\"">>
    ELSE IF c = "\\" THEN <<"\\", "\\">>
    ELSE IF c = "\n" THEN <<"\\", "n">>
    ELSE IF c = "\t" THEN <<"\\", "t">>
    ELSE <<"\\", "u">> \o Hex4(Ord[c])

\* The escapes of the characters of a str, in order: the str itself when
\* no character of it needs one.
RECURSIVE EscapeAll(_)
EscapeAll(s) ==
    IF \A i \in 1..Len(s) : ~NeedsEscape(s[i]) THEN s
    ELSE IF Len(s) = 1 THEN EscapeChar(s[1])
    ELSE LET mid == Len(s) \div 2
         IN  EscapeAll(SubSeq(s, 1, mid)) \o EscapeAll(SubSeq(s, mid + 1, Len(s)))

\* A str as a JSON string literal.
encode_basestring_ascii(s) == <<"\"">> \o EscapeAll(s) \o <<"\"">>

\* The two kinds of value the payloads hold.
Str(s) == [kind |-> "str", s |-> s]
Bool(b) == [kind |-> "bool", b |-> b]
Item(k, v) == [key |-> k, value |-> v]

JsonValue(v) ==
    IF v.kind = "bool"
    THEN (IF v.b THEN <<"t", "r", "u", "e">> ELSE <<"f", "a", "l", "s", "e">>)
    ELSE encode_basestring_ascii(v.s)

\* The items of a dict from the i-th on, each "key": value, joined by sep.
RECURSIVE JsonItems(_, _, _)
JsonItems(d, i, sep) ==
    IF i > Len(d) THEN <<>>
    ELSE encode_basestring_ascii(d[i].key) \o <<":", " ">> \o JsonValue(d[i].value)
         \o (IF i < Len(d) THEN sep ELSE <<>>)
         \o JsonItems(d, i + 1, sep)

\* json.dumps(d) when indent is FALSE and json.dumps(d, indent=2) when it
\* is TRUE, for a dict d of str keys.
json_dumps(d, indent) ==
    IF d = <<>> THEN <<"{", "}">>
    ELSE IF indent
    THEN <<"{", "\n", " ", " ">> \o JsonItems(d, 1, <<",", "\n", " ", " ">>)
         \o <<"\n", "}">>
    ELSE <<"{">> \o JsonItems(d, 1, <<",", " ">>) \o <<"}">>

-----------------------------------------------------------------------------
(* The environment *)

EnvNames ==
    {"DATABASE_URL", "API_KEY", "APP_CONFIG", "FEATURE_FLAGS", "ENVIRONMENT",
     "DB_PASSWORD", "JWT_SECRET", "ENCRYPTION_KEY"}

SecretNames == {"DB_PASSWORD", "JWT_SECRET", "ENCRYPTION_KEY"}

\* The values a variable is given in the model: the empty string, and
\* non-empty ones with the characters json escapes and with text that also
\* occurs in the payloads' own keys.
ValueList(n) ==
    IF n \in SecretNames
    THEN << <<>>, <<"s", "3">>, <<"p", "a", "s", "s", "w", "o", "r", "d">> >>
    ELSE IF n = "API_KEY"
    THEN << <<>>, <<"k">> >>
    ELSE << <<>>, <<"p", "\"", "\\", "\n", "é">> >>

Values(n) == {ValueList(n)[i] : i \in 1..Len(ValueList(n))}

\* Every environment over these values: each variable is left unset (0) or
\* given one of its values.
Choices ==
    {f \in [EnvNames -> 0..Len(ValueList("DB_PASSWORD"))] :
        \A n \in EnvNames : f[n] <= Len(ValueList(n))}

MkEnv(f) == [n \in {m \in EnvNames : f[m] > 0} |-> ValueList(n)[f[n]]]

Envs == {MkEnv(f) : f \in Choices}

\* A variant of environ_get: os.environ.get(name) or default, which replaces
\* an empty value too.
environ_get_or(env, name, default) ==
    IF name \in DOMAIN env /\ env[name] # <<>> THEN env[name] ELSE default

\* os.environ.get(name, default)
environ_get(env, name, default) ==
    IF name \in DOMAIN env THEN env[name] ELSE default

\* A variant of bool_environ_get: name in os.environ, true of an empty value.
bool_environ_get_isset(env, name) == name \in DOMAIN env

\* bool(os.environ.get(name)): None and '' are both falsy.
bool_environ_get(env, name) ==
    IF name \in DOMAIN env THEN env[name] # <<>> ELSE FALSE


-----------------------------------------------------------------------------
(* The handler *)

\* The str literals of do_GET.
ContentType == <<"C", "o", "n", "t", "e", "n", "t", "-", "T", "y", "p", "e">>
ApplicationJson ==
    <<"a", "p", "p", "l", "i", "c", "a", "t", "i", "o", "n", "/", "j", "s", "o", "n">>
NotSet == <<"n", "o", "t", "_", "s", "e", "t">>
K_status == <<"s", "t", "a", "t", "u", "s">>
V_healthy == <<"h", "e", "a", "l", "t", "h", "y">>
K_database_url == <<"d", "a", "t", "a", "b", "a", "s", "e", "_", "u", "r", "l">>
K_api_key_present ==
    <<"a", "p", "i", "_", "k", "e", "y", "_", "p", "r", "e", "s", "e", "n", "t">>
K_app_config == <<"a", "p", "p", "_", "c", "o", "n", "f", "i", "g">>
K_feature_flags == <<"f", "e", "a", "t", "u", "r", "e", "_", "f", "l", "a", "g", "s">>
K_environment == <<"e", "n", "v", "i", "r", "o", "n", "m", "e", "n", "t">>
K_db_password_loaded ==
    <<"d", "b", "_", "p", "a", "s", "s", "w", "o", "r", "d", "_", "l", "o", "a", "d", "e", "d">>
K_jwt_secret_loaded ==
    <<"j", "w", "t", "_", "s", "e", "c", "r", "e", "t", "_", "l", "o", "a", "d", "e", "d">>
K_encryption_key_loaded ==
    <<"e", "n", "c", "r", "y", "p", "t", "i", "o", "n", "_", "k", "e", "y", "_",
      "l", "o", "a", "d", "e", "d">>

\* The request paths of the model: the three routes, an unknown path, and a
\* route with a trailing slash, with a query string and in another case.
Paths ==
    {"/health", "/config", "/secrets", "/unknown", "/health/", "/config?x=1", "/SECRETS"}

\* A Handler instance before do_GET runs: nothing sent, nothing written.
\*   status   the status lines sent, in order
\*   headers  the headers do_GET sent, in order
\*   ended    whether end_headers() was called
\*   wfile    the bytes written to self.wfile
\*   local    the dict do_GET holds in its local variable
\*   reads    the names looked up in os.environ
NewHandler ==
    [status |-> <<>>, headers |-> <<>>, ended |-> FALSE, wfile |-> <<>>,
     local |-> <<>>, reads |-> {}]

send_response(h, code) == [h EXCEPT !.status = Append(@, code)]
send_header(h, name, value) == [h EXCEPT !.headers = Append(@, <<name, value>>)]
end_headers(h) == [h EXCEPT !.ended = TRUE]
wfile_write(h, data) == [h EXCEPT !.wfile = @ \o data]

\* A variant of health: healthy only with a database configured.
health_envdep(env) ==
    << Item(K_status, Str(IF "DATABASE_URL" \in DOMAIN env THEN V_healthy ELSE NotSet)) >>

\* The dict literal of the /health branch; it looks nothing up.
health(env) == << Item(K_status, Str(V_healthy)) >>

\* A variant of config: app_config and feature_flags look up each other's
\* variable.
config_swapped(env) ==
    << Item(K_database_url, Str(environ_get(env, "DATABASE_URL", NotSet))),
       Item(K_api_key_present, Bool(bool_environ_get(env, "API_KEY"))),
       Item(K_app_config, Str(environ_get(env, "FEATURE_FLAGS", NotSet))),
       Item(K_feature_flags, Str(environ_get(env, "APP_CONFIG", NotSet))),
       Item(K_environment, Str(environ_get(env, "ENVIRONMENT", NotSet))) >>

\* The dict literal of the /config branch.
config(env) ==
    << Item(K_database_url, Str(environ_get(env, "DATABASE_URL", NotSet))),
       Item(K_api_key_present, Bool(bool_environ_get(env, "API_KEY"))),
       Item(K_app_config, Str(environ_get(env, "APP_CONFIG", NotSet))),
       Item(K_feature_flags, Str(environ_get(env, "FEATURE_FLAGS", NotSet))),
       Item(K_environment, Str(environ_get(env, "ENVIRONMENT", NotSet))) >>

\* The names the /config branch looks up.
ConfigReads ==
    {"DATABASE_URL", "API_KEY", "APP_CONFIG", "FEATURE_FLAGS", "ENVIRONMENT"}

\* A variant of secrets: db_password_loaded holds the password itself.
secrets_leaky(env) ==
    << Item(K_db_password_loaded, Str(environ_get(env, "DB_PASSWORD", NotSet))),
       Item(K_jwt_secret_loaded, Bool(bool_environ_get(env, "JWT_SECRET"))),
       Item(K_encryption_key_loaded, Bool(bool_environ_get(env, "ENCRYPTION_KEY"))) >>

\* The dict literal of the /secrets branch.
secrets(env) ==
    << Item(K_db_password_loaded, Bool(bool_environ_get(env, "DB_PASSWORD"))),
       Item(K_jwt_secret_loaded, Bool(bool_environ_get(env, "JWT_SECRET"))),
       Item(K_encryption_key_loaded, Bool(bool_environ_get(env, "ENCRYPTION_KEY"))) >>

\* The names the /secrets branch looks up.
SecretsReads == {"DB_PASSWORD", "JWT_SECRET", "ENCRYPTION_KEY"}

\* A variant of Branch: a trailing slash and a query string are ignored.
Branch_lenient(p) ==
    IF p \in {"/health", "/health/"} THEN "health"
    ELSE IF p \in {"/config", "/config?x=1"} THEN "config"
    ELSE IF p = "/secrets" THEN "secrets"
    ELSE "else"

\* The branch of do_GET's if/elif chain a path takes: self.path is compared
\* with each route by ==.
Branch(p) ==
    IF p = "/health" THEN "health"
    ELSE IF p = "/config" THEN "config"
    ELSE IF p = "/secrets" THEN "secrets"
    ELSE "else"

\* The statements of each branch, in order.
HealthScript ==
    << [op |-> "send_response", code |-> 200],
       [op |-> "send_header", name |-> ContentType, value |-> ApplicationJson],
       [op |-> "end_headers"],
       [op |-> "write_health"] >>

ConfigScript ==
    << [op |-> "send_response", code |-> 200],
       [op |-> "send_header", name |-> ContentType, value |-> ApplicationJson],
       [op |-> "end_headers"],
       [op |-> "build_config"],
       [op |-> "write_local"] >>

SecretsScript ==
    << [op |-> "send_response", code |-> 200],
       [op |-> "send_header", name |-> ContentType, value |-> ApplicationJson],
       [op |-> "end_headers"],
       [op |-> "build_secrets"],
       [op |-> "write_local"] >>

\* A variant of ElseScript: the 404 carries a JSON body.
ElseScript_json ==
    << [op |-> "send_response", code |-> 404],
       [op |-> "send_header", name |-> ContentType, value |-> ApplicationJson],
       [op |-> "end_headers"],
       [op |-> "write_health"] >>

ElseScript ==
    << [op |-> "send_response", code |-> 404],
       [op |-> "end_headers"] >>

\* The statements do_GET runs for a path.
Script(p) ==
    IF Branch(p) = "health" THEN HealthScript
    ELSE IF Branch(p) = "config" THEN ConfigScript
    ELSE IF Branch(p) = "secrets" THEN SecretsScript
    ELSE ElseScript

\* One statement of do_GET, run by the instance h under the environment env.
Exec(h, stmt, env) ==
    IF stmt.op = "send_response" THEN send_response(h, stmt.code)
    ELSE IF stmt.op = "send_header" THEN send_header(h, stmt.name, stmt.value)
    ELSE IF stmt.op = "end_headers" THEN end_headers(h)
    ELSE IF stmt.op = "write_health" THEN
        wfile_write(h, encode(json_dumps(health(env), FALSE)))
    ELSE IF stmt.op = "build_config" THEN
        [h EXCEPT !.local = config(env), !.reads = @ \cup ConfigReads]
    ELSE IF stmt.op = "build_secrets" THEN
        [h EXCEPT !.local = secrets(env), !.reads = @ \cup SecretsReads]
    ELSE \* write_local
        wfile_write(h, encode(json_dumps(h.local, TRUE)))

\* The statements of a script from the i-th on, run one after the other.
RECURSIVE RunFrom(_, _, _, _)
RunFrom(h, script, i, env) ==
    IF i > Len(script) THEN h
    ELSE RunFrom(Exec(h, script[i], env), script, i + 1, env)

\* do_GET on a fresh instance whose self.path is p.
do_GET(p, env) == RunFrom(NewHandler, Script(p), 1, env)

\* A variant of Handler: the response to a path is kept and sent again.
Handler_cached(p, env) ==
    IF last.served /\ last.path = p
    THEN [h |-> last.h, environ |-> env]
    ELSE [h |-> do_GET(p, env), environ |-> env]

\* A variant of Handler: os.environ.setdefault('DATABASE_URL', 'not_set')
\* before do_GET runs.
Handler_setdefault(p, env) ==
    [h |-> do_GET(p, env),
     environ |-> [m \in DOMAIN env \cup {"DATABASE_URL"} |->
                      IF m \in DOMAIN env THEN env[m] ELSE NotSet]]

\* One request handled by the server: a Handler is instantiated and its
\* do_GET runs against the process environment, which it only reads.
Handler(p, env) == [h |-> do_GET(p, env), environ |-> env]

-----------------------------------------------------------------------------
(* The server handling one request of a started process *)

Threads == 1..NumThreads

NotAccepted == "(none)"

NoRequest == [served |-> FALSE, path |-> NotAccepted, env |-> <<>>, h |-> NewHandler]

Served(p, env, h) == [served |-> TRUE, path |-> p, env |-> env, h |-> h]

InitRest ==
    /\ last = NoRequest
    /\ prev = NoRequest
    /\ changes = 0
    /\ handlers = [t \in Threads |-> NewHandler]
    /\ pc = [t \in Threads |-> 0]
    /\ path = [t \in Threads |-> NotAccepted]

\* The process starts in any environment.
Init ==
    /\ environ \in Envs
    /\ InitRest

\* The server handles a GET for p: serve_forever() hands the request to a
\* new Handler.
Serve(p) ==
    \E out \in {Handler(p, environ)} :
        /\ last' = Served(p, environ, out.h)
        /\ environ' = out.environ
        /\ UNCHANGED <<changes, handlers, pc, path>>

\* The first request the process handles.
FirstRequest(p) ==
    /\ ~last.served
    /\ Serve(p)
    /\ UNCHANGED prev

Next == \E p \in Paths : FirstRequest(p)

Spec == Init /\ [][Next]_vars

-----------------------------------------------------------------------------
(* The serial server over many requests, the environment changing between  *)
(* them: HTTPServer handles one request at a time                           *)

\* The environments a run starts in: nothing set, and every variable set to
\* its first non-empty value.
SampleEnvs ==
    { MkEnv([n \in EnvNames |-> 0]), MkEnv([n \in EnvNames |-> 2]) }

InitLive ==
    /\ environ \in SampleEnvs
    /\ InitRest

\* os.environ[n] = v, between two requests.
Setenv(n, v) ==
    /\ changes < MaxEnvChanges
    /\ ~(n \in DOMAIN environ /\ environ[n] = v)
    /\ environ' = [m \in DOMAIN environ \cup {n} |-> IF m = n THEN v ELSE environ[m]]
    /\ changes' = changes + 1
    /\ UNCHANGED <<last, prev, handlers, pc, path>>

\* del os.environ[n], between two requests.
Unsetenv(n) ==
    /\ changes < MaxEnvChanges
    /\ n \in DOMAIN environ
    /\ environ' = [m \in DOMAIN environ \ {n} |-> environ[m]]
    /\ changes' = changes + 1
    /\ UNCHANGED <<last, prev, handlers, pc, path>>

\* The server handles one more request; the one before it is remembered.
NextRequest(p) ==
    /\ Serve(p)
    /\ prev' = last

NextLive ==
    \/ \E p \in Paths : NextRequest(p)
    \/ \E n \in EnvNames : \E v \in Values(n) : Setenv(n, v)
    \/ \E n \in EnvNames : Unsetenv(n)

SpecLive == InitLive /\ [][NextLive]_vars

-----------------------------------------------------------------------------
(* A threaded server: one Handler instance per connection, their           *)
(* statements interleaved, the environment left alone                      *)

InitConc ==
    /\ environ \in SampleEnvs
    /\ InitRest

\* A connection's request line is read: self.path is set.
Accept(t, p) ==
    /\ path[t] = NotAccepted
    /\ path' = [path EXCEPT ![t] = p]
    /\ UNCHANGED <<environ, last, prev, changes, handlers, pc>>

\* A variant of run_statement: the dict is an attribute of the class, which
\* all instances share.
run_statement_shared(hs, t, stmt, env) ==
    [u \in DOMAIN hs |->
        IF u = t THEN Exec(hs[t], stmt, env)
        ELSE [hs[u] EXCEPT !.local = Exec(hs[t], stmt, env).local]]

\* The instances after connection t ran statement stmt: every attribute
\* do_GET touches belongs to t's own instance.
run_statement(hs, t, stmt, env) == [hs EXCEPT ![t] = Exec(hs[t], stmt, env)]

\* The next statement of connection t's do_GET.
Step(t) ==
    /\ path[t] # NotAccepted
    /\ pc[t] < Len(Script(path[t]))
    /\ handlers' = run_statement(handlers, t, Script(path[t])[pc[t] + 1], environ)
    /\ pc' = [pc EXCEPT ![t] = @ + 1]
    /\ UNCHANGED <<environ, last, prev, changes, path>>

NextConc ==
    \/ \E t \in Threads : \E p \in Paths : Accept(t, p)
    \/ \E t \in Threads : Step(t)

SpecConc == InitConc /\ [][NextConc]_vars

-----------------------------------------------------------------------------
(* What a client sees, and how it reads a body *)

Routes == {"/health", "/config", "/secrets"}

\* The response on the wire: status line, headers, end of headers, body.
Obs(h) == <<h.status, h.headers, h.ended, h.wfile>>

\* A variable is set and non-empty.
Present(env, n) == n \in DOMAIN env /\ env[n] # <<>>

WithValue(env, n, v) ==
    [m \in DOMAIN env \cup {n} |-> IF m = n THEN v ELSE env[m]]

Without(env, n) == [m \in DOMAIN env \ {n} |-> env[m]]

\* The bytes sub occur in the bytes b.
Contains(b, sub) ==
    \E i \in 1..(Len(b) - Len(sub) + 1) : SubSeq(b, i, i + Len(sub) - 1) = sub

\* bytes.decode() of an ASCII body; <<"EOF">> for bytes that are no ASCII
\* character of the model.
ChrTable ==
    [b \in {Ord[c] : c \in DOMAIN Ord} |-> CHOOSE c \in DOMAIN Ord : Ord[c] = b]
decode(b) ==
    IF \A i \in 1..Len(b) : b[i] < 128 /\ b[i] \in DOMAIN ChrTable
    THEN [i \in 1..Len(b) |-> ChrTable[b[i]]]
    ELSE <<"EOF">>

\* json.loads of an object of strings and booleans: the items in order, or
\* a failure.
At(s, i) == IF i >= 1 /\ i <= Len(s) THEN s[i] ELSE "EOF"
Ws == {" ", "\n", "\t"}
SkipWs(s, i) ==
    CHOOSE j \in i..(Len(s) + 1) :
        (\A k \in i..(j - 1) : s[k] \in Ws) /\ At(s, j) \notin Ws
IsHex(c) == \E d \in 1..16 : HexDigits[d] = c
HexVal(c) == (CHOOSE d \in 1..16 : HexDigits[d] = c) - 1
Fail == [ok |-> FALSE, val |-> <<>>, next |-> 0]

\* The characters of a string literal from s[i] on, up to its closing quote.
RECURSIVE ReadString(_, _, _)
ReadString(s, i, acc) ==
    IF At(s, i) = "EOF" THEN Fail
    ELSE IF s[i] = "\"" THEN [ok |-> TRUE, val |-> acc, next |-> i + 1]
    ELSE IF s[i] = "\\" THEN
        IF At(s, i + 1) \in {"\"", "\\", "/"}
        THEN ReadString(s, i + 2, Append(acc, s[i + 1]))
        ELSE IF At(s, i + 1) = "n" THEN ReadString(s, i + 2, Append(acc, "\n"))
        ELSE IF At(s, i + 1) = "t" THEN ReadString(s, i + 2, Append(acc, "\t"))
        ELSE IF At(s, i + 1) = "u" /\ \A k \in 2..5 : IsHex(At(s, i + k)) THEN
            LET n == 4096 * HexVal(s[i + 2]) + 256 * HexVal(s[i + 3])
                     + 16 * HexVal(s[i + 4]) + HexVal(s[i + 5])
            IN  IF n \in DOMAIN ChrTable
                THEN ReadString(s, i + 6, Append(acc, ChrTable[n]))
                ELSE Fail
        ELSE Fail
    ELSE IF Ord[s[i]] < 32 THEN Fail
    ELSE ReadString(s, i + 1, Append(acc, s[i]))

ReadValue(s, i) ==
    IF At(s, i) = "\"" THEN
        LET r == ReadString(s, i + 1, <<>>)
        IN  [ok |-> r.ok, val |-> Str(r.val), next |-> r.next]
    ELSE IF SubSeq(s, i, i + 3) = <<"t", "r", "u", "e">>
    THEN [ok |-> TRUE, val |-> Bool(TRUE), next |-> i + 4]
    ELSE IF SubSeq(s, i, i + 4) = <<"f", "a", "l", "s", "e">>
    THEN [ok |-> TRUE, val |-> Bool(FALSE), next |-> i + 5]
    ELSE Fail

\* The members of an object from the key at s[i] on.
RECURSIVE ReadMembers(_, _, _)
ReadMembers(s, i, acc) ==
    IF At(s, i) # "\"" THEN Fail
    ELSE LET k == ReadString(s, i + 1, <<>>)
         IN  IF ~k.ok \/ At(s, SkipWs(s, k.next)) # ":" THEN Fail
             ELSE LET v == ReadValue(s, SkipWs(s, SkipWs(s, k.next) + 1))
                  IN  IF ~v.ok THEN Fail
                      ELSE LET m == SkipWs(s, v.next)
                               items == Append(acc, Item(k.val, v.val))
                           IN  IF At(s, m) = ","
                               THEN ReadMembers(s, SkipWs(s, m + 1), items)
                               ELSE IF At(s, m) = "}" /\ SkipWs(s, m + 1) = Len(s) + 1
                               THEN [ok |-> TRUE, val |-> items, next |-> Len(s) + 1]
                               ELSE Fail

json_loads(s) ==
    IF At(s, SkipWs(s, 1)) # "{" THEN Fail
    ELSE ReadMembers(s, SkipWs(s, SkipWs(s, 1) + 1), <<>>)

\* The body of a response as the client parses it.
Parsed(h) == json_loads(decode(h.wfile))

-----------------------------------------------------------------------------
(* Claims *)

\* The non-empty values of a variable.
NonEmpty(n) == Values(n) \ {<<>>}

\* The variables looked up for a presence flag, and those echoed.
FlagNames == {"API_KEY", "DB_PASSWORD", "JWT_SECRET", "ENCRYPTION_KEY"}
EchoNames == {"DATABASE_URL", "APP_CONFIG", "FEATURE_FLAGS", "ENVIRONMENT"}

\* The key of /config that echoes a variable.
EchoKey(n) ==
    IF n = "DATABASE_URL" THEN K_database_url
    ELSE IF n = "APP_CONFIG" THEN K_app_config
    ELSE IF n = "FEATURE_FLAGS" THEN K_feature_flags
    ELSE K_environment

\* The item a parsed object holds under a key.
Field(obj, k) == obj[CHOOSE i \in 1..Len(obj) : obj[i].key = k]

HasField(obj, k) == \E i \in 1..Len(obj) : obj[i].key = k

\* The response is the same for every other non-empty value of each secret
\* that is set and non-empty.
SecretValuesHidden ==
    \A n \in SecretNames :
        Present(last.env, n) =>
            \A v \in NonEmpty(n) :
                Obs(Handler(last.path, WithValue(last.env, n, v)).h) = Obs(last.h)

\* C1 as stated: the response of do_GET is the same for any non-empty
\* values of DB_PASSWORD, JWT_SECRET and ENCRYPTION_KEY, and no response
\* body contains one of those values.
C1_SecretsNeverInBody ==
    last.served =>
        /\ SecretValuesHidden
        /\ \A n \in SecretNames :
               Present(last.env, n) => ~Contains(last.h.wfile, encode(last.env[n]))

\* C1, amended: the response of do_GET (status, headers, body) is the same
\* for any non-empty values of DB_PASSWORD, JWT_SECRET and ENCRYPTION_KEY, so
\* whatever a body contains it contains for every such value.
C1_SecretValuesHidden == last.served => SecretValuesHidden

C1_Witness ==
    /\ last.served
    /\ last.path = "/secrets"
    /\ Present(last.env, "DB_PASSWORD")
    /\ last.env["DB_PASSWORD"] = <<"s", "3">>
    /\ Present(last.env, "JWT_SECRET")
    /\ last.h.wfile # <<>>
    /\ ~Contains(last.h.wfile, encode(<<"s", "3">>))

\* C2: a path that is not exactly /health, /config or /secrets gets status
\* 404 and an empty body in every environment; each of the three gets 200.
C2_ExactRoutes ==
    last.served =>
        IF last.path \in Routes
        THEN last.h.status = <<200>>
        ELSE last.h.status = <<404>> /\ last.h.wfile = <<>>

C2_Witness ==
    /\ last.served
    /\ last.path = "/health/"
    /\ last.h.status = <<404>>
    /\ DOMAIN last.env = EnvNames

\* C3: api_key_present on /config and the three *_loaded flags on /secrets
\* are booleans, each true exactly when its own variable is set and
\* non-empty, whatever the other variables are.
C3_PresenceFlags ==
    /\ last.served /\ last.path = "/config" =>
           LET r == Parsed(last.h)
           IN  /\ r.ok
               /\ HasField(r.val, K_api_key_present)
               /\ Field(r.val, K_api_key_present).value
                      = Bool(Present(last.env, "API_KEY"))
    /\ last.served /\ last.path = "/secrets" =>
           LET r == Parsed(last.h)
           IN  /\ r.ok
               /\ r.val = << Item(K_db_password_loaded,
                                  Bool(Present(last.env, "DB_PASSWORD"))),
                             Item(K_jwt_secret_loaded,
                                  Bool(Present(last.env, "JWT_SECRET"))),
                             Item(K_encryption_key_loaded,
                                  Bool(Present(last.env, "ENCRYPTION_KEY"))) >>

C3_Witness ==
    /\ last.served
    /\ last.path = "/secrets"
    /\ Present(last.env, "DB_PASSWORD")
    /\ "JWT_SECRET" \notin DOMAIN last.env
    /\ "ENCRYPTION_KEY" \in DOMAIN last.env
    /\ last.env["ENCRYPTION_KEY"] = <<>>
    /\ Contains(last.h.wfile, encode(<<"f", "a", "l", "s", "e">>))

\* C4: the body of /config has exactly the keys database_url,
\* api_key_present, app_config, feature_flags and environment; each string
\* field is 'not_set' when its variable is absent and the variable's exact
\* value when it is set and non-empty.
C4_ConfigEcho ==
    last.served /\ last.path = "/config" =>
        LET r == Parsed(last.h)
        IN  /\ r.ok
            /\ [i \in 1..Len(r.val) |-> r.val[i].key]
                   = << K_database_url, K_api_key_present, K_app_config,
                        K_feature_flags, K_environment >>
            /\ \A n \in EchoNames :
                   /\ n \notin DOMAIN last.env =>
                          Field(r.val, EchoKey(n)).value = Str(NotSet)
                   /\ Present(last.env, n) =>
                          Field(r.val, EchoKey(n)).value = Str(last.env[n])

C4_Witness ==
    /\ last.served
    /\ last.path = "/config"
    /\ Present(last.env, "DATABASE_URL")
    /\ last.env["DATABASE_URL"] = <<"p", "\"", "\\", "\n", "é">>
    /\ "APP_CONFIG" \notin DOMAIN last.env
    /\ Contains(last.h.wfile, encode(NotSet))

\* The response handled with the variable n unset.
SameAsUnset(n) ==
    Obs(Handler(last.path, Without(last.env, n)).h) = Obs(last.h)

\* C5 as stated: for every path, the response when a tracked variable is
\* set to '' is the response when that variable is unset.
C5_EmptyIsUnset ==
    last.served =>
        \A n \in DOMAIN last.env : last.env[n] = <<>> => SameAsUnset(n)

\* C5, amended: a variable behind a presence flag (API_KEY, DB_PASSWORD,
\* JWT_SECRET, ENCRYPTION_KEY) set to '' gives the response of that variable
\* unset, on every path; a variable echoed by /config (DATABASE_URL,
\* APP_CONFIG, FEATURE_FLAGS, ENVIRONMENT) set to '' gives that response on
\* every path but /config, where its field is the empty string and not
\* 'not_set'.
C5_EmptyFlagIsUnset ==
    last.served =>
        \A n \in DOMAIN last.env :
            last.env[n] = <<>> =>
                IF n \in FlagNames \/ last.path # "/config"
                THEN SameAsUnset(n)
                ELSE LET r == Parsed(last.h)
                     IN  /\ r.ok
                         /\ Field(r.val, EchoKey(n)).value = Str(<<>>)
                         /\ ~SameAsUnset(n)

C5_Witness ==
    /\ last.served
    /\ last.path = "/config"
    /\ "API_KEY" \in DOMAIN last.env
    /\ last.env["API_KEY"] = <<>>
    /\ "DATABASE_URL" \in DOMAIN last.env
    /\ last.env["DATABASE_URL"] = <<>>
    /\ last.h.wfile # <<>>

\* The bytes of {"status": "healthy"}.
HealthBody ==
    << 123, 34, 115, 116, 97, 116, 117, 115, 34, 58, 32,
       34, 104, 101, 97, 108, 116, 104, 121, 34, 125 >>

\* C6: /health gets status 200 and the body {"status": "healthy"} in every
\* environment, and no environment variable is looked up for it.
C6_Health ==
    last.served /\ last.path = "/health" =>
        /\ last.h.status = <<200>>
        /\ last.h.wfile = HealthBody
        /\ last.h.reads = {}

C6_Witness ==
    /\ last.served
    /\ last.path = "/health"
    /\ last.h.wfile = HealthBody
    /\ DOMAIN last.env = {}

\* C7: the header Content-Type: application/json is sent for /health,
\* /config and /secrets; the 404 of any other path has no Content-Type
\* header and no body byte.
C7_ContentType ==
    last.served =>
        /\ last.h.ended
        /\ IF last.path \in Routes
           THEN last.h.headers = << <<ContentType, ApplicationJson>> >>
           ELSE /\ \A i \in 1..Len(last.h.headers) : last.h.headers[i][1] # ContentType
                /\ last.h.wfile = <<>>

C7_Witness ==
    /\ last.served
    /\ last.path = "/unknown"
    /\ last.h.status = <<404>>
    /\ last.h.ended
    /\ last.h.headers = <<>>

\* What /config and /secrets look up, as the code sees it.
ConfigView(env) ==
    << [n \in EchoNames |-> IF n \in DOMAIN env THEN <<env[n]>> ELSE <<>>],
       Present(env, "API_KEY") >>

SecretsView(env) == [n \in SecretNames |-> Present(env, n)]

\* C8: over any sequence of requests and environment changes, a response
\* depends only on its request's path and on the environment at that time:
\* two requests for one path under one environment get one response, and a
\* changed value that the path reports shows in the later response.
C8_Stateless ==
    prev.served /\ last.served /\ prev.path = last.path =>
        /\ prev.env = last.env => Obs(prev.h) = Obs(last.h)
        /\ last.path = "/config" /\ ConfigView(prev.env) # ConfigView(last.env)
               => prev.h.wfile # last.h.wfile
        /\ last.path = "/secrets" /\ SecretsView(prev.env) # SecretsView(last.env)
               => prev.h.wfile # last.h.wfile

C8_Witness ==
    /\ prev.served
    /\ last.served
    /\ prev.path = "/config"
    /\ last.path = "/config"
    /\ changes > 0
    /\ "DATABASE_URL" \notin DOMAIN prev.env
    /\ Present(last.env, "DATABASE_URL")
    /\ prev.h.wfile # last.h.wfile

\* C9: handling a GET leaves the environment as it was: a step that
\* records a response changes nothing else.
C9_ReadOnly ==
    [][(last' # last \/ prev' # prev)
           => (environ' = environ /\ changes' = changes)]_vars

C9_Witness ==
    /\ prev.served
    /\ last.served
    /\ last.path = "/config"
    /\ changes > 0
    /\ environ = last.env
    /\ "DATABASE_URL" \notin DOMAIN environ

\* A connection's do_GET has run to its end.
Done(t) == path[t] # NotAccepted /\ pc[t] = Len(Script(path[t]))

\* The instance of connection t had its do_GET run alone as far as t has
\* come.
Alone(t) == RunFrom(NewHandler, SubSeq(Script(path[t]), 1, pc[t]), 1, environ)

\* C10: with the environment left alone, under every interleaving of the
\* statements of concurrent requests each request is at every point where
\* it would be alone, can take its next statement until its do_GET ends,
\* and ends with the response it would get alone, sent once.
C10_Isolation ==
    \A t \in Threads :
        /\ handlers[t] = Alone(t)
        /\ Len(handlers[t].status) <= 1
        /\ path[t] # NotAccepted /\ ~Done(t) => pc[t] < Len(Script(path[t]))
        /\ Done(t) =>
               /\ Obs(handlers[t]) = Obs(do_GET(path[t], environ))
               /\ Len(handlers[t].status) = 1
               /\ handlers[t].ended

C10_Witness ==
    /\ path[1] = "/config"
    /\ Done(1)
    /\ path[2] = "/secrets"
    /\ pc[2] = 4
    /\ handlers[2].local = secrets(environ)
    /\ handlers[1].wfile # <<>>

=============================================================================
